---------------------------- MODULE Spec2Model ----------------------------
(* Node-group stacks of pkg/cfn/manager/nodegroup.go:                       *)
(*   - the resolvers that read a stack's tags (GetNodegroupTagName,         *)
(*     GetNodeGroupName, GetNodeGroupType, GetEksctlVersionFromTags);       *)
(*   - the task that propagates a managed node group's tags to its          *)
(*     autoscaling groups (propagateManagedNodeGroupTagsToASGTask).         *)
EXTENDS Integers, Sequences, FiniteSets, TLC

VARIABLES
    stack,      \* the *Stack handed to a resolver: [StackName, Tags]
    result,     \* the resolver last applied and what it returned
    ng,         \* the *api.ManagedNodeGroup handed to the propagation task
    eks,        \* what eksAPI.DescribeNodegroup answers
    asg,        \* what asgAPI.CreateOrUpdateTags answers
    taskState,  \* "ready" before the task is called, "returned" after ("idle": no task)
    ret,        \* the task's synchronous return value
    calls,      \* the external calls the task has made, in order
    sending,    \* values of goroutines blocked in `errorCh <- v`
    received,   \* values a reader has taken from errorCh, in order
    rawStacks,  \* what c.DescribeStacks answers: [stacks, err]
    listed,     \* the listing function last applied and what it returned
    invocations, \* the node-group tasks run on one shared channel, by number
    errs,       \* that shared channel: [sending, received]
    update,     \* an UpdateStack call: its options, position, calls and result
    batcher     \* a TagBatcher application: [records, max, batches]

resolverVars == <<stack, result>>
taskVars == <<ng, eks, asg, taskState, ret, calls, sending, received>>
listVars == <<rawStacks, listed>>
groupVars == <<invocations, errs>>
\* the variables added for the listing, the task group, UpdateStack and TagBatcher
moreVars == <<rawStacks, listed, invocations, errs, update, batcher>>
vars == <<stack, result, ng, eks, asg, taskState, ret, calls, sending, received,
          rawStacks, listed, invocations, errs, update, batcher>>

-----------------------------------------------------------------------------
(* Bounds of the model.                                                     *)

\* longest tag list of a stack handed to the resolvers
MaxStackTags == 3
\* largest tag map of a node group handed to the propagation task
MaxNgTags == 52
\* most autoscaling groups DescribeNodegroup reports
MaxASGs == 2
\* number of distinct iteration orders of the tag map that are explored
MaxOrders == 2

-----------------------------------------------------------------------------
(* Reserved tag keys and node-group types (package api).                    *)

NodeGroupNameTag == "alpha.eksctl.io/nodegroup-name"
OldNodeGroupNameTag == "eksctl.cluster.k8s.io/v1alpha1/nodegroup-name"
OldNodeGroupIDTag == "eksctl.cluster.k8s.io/v1alpha1/nodegroup-id"
NodeGroupTypeTag == "alpha.eksctl.io/nodegroup-type"
EksctlVersionTag == "alpha.eksctl.io/eksctl-version"

NodeGroupTypeManaged == "managed"
NodeGroupTypeUnmanaged == "unmanaged"

\* a Go nil error
NilError == "<nil>"

\* a nil Nodegroup.Resources
NilResources == [IsNil |-> TRUE, AutoScalingGroups |-> <<>>]

-----------------------------------------------------------------------------
(* The resolvers.                                                           *)

\* strings.HasSuffix
HasSuffix(s, suffix) ==
    /\ Len(s) >= Len(suffix)
    /\ SubSeq(s, Len(s) - Len(suffix) + 1, Len(s)) = suffix

\* the index of the first tag of the list whose key is in keys, 0 if none
FirstIndex(tags, keys) ==
    LET hits == {i \in 1..Len(tags) : tags[i].Key \in keys}
    IN  IF hits = {} THEN 0 ELSE CHOOSE i \in hits : \A j \in hits : i <= j

\* the index of the last tag of the list whose key is in keys, 0 if none
LastIndex(tags, keys) ==
    LET hits == {i \in 1..Len(tags) : tags[i].Key \in keys}
    IN  IF hits = {} THEN 0 ELSE CHOOSE i \in hits : \A j \in hits : i >= j

\* faulty variant: the last name-identifying tag of the list decides
GetNodegroupTagName_last(tags) ==
    LET i == LastIndex(tags, {NodeGroupNameTag, OldNodeGroupNameTag, OldNodeGroupIDTag})
    IN  IF i = 0 THEN "" ELSE tags[i].Value

\* the loop returns at the first tag whose key is one of the three name keys
GetNodegroupTagName(tags) ==
    LET i == FirstIndex(tags, {NodeGroupNameTag, OldNodeGroupNameTag, OldNodeGroupIDTag})
    IN  IF i = 0 THEN "" ELSE tags[i].Value

\* faulty variant: the "-DefaultNodeGroup" suffix is not recognised
GetNodeGroupName_noDefault(s) ==
    IF GetNodegroupTagName(s.Tags) # "" THEN GetNodegroupTagName(s.Tags)
    ELSE IF HasSuffix(s.StackName, "-nodegroup-0") THEN "legacy-nodegroup-0"
    ELSE ""

GetNodeGroupName(s) ==
    IF GetNodegroupTagName(s.Tags) # "" THEN GetNodegroupTagName(s.Tags)
    ELSE IF HasSuffix(s.StackName, "-nodegroup-0") THEN "legacy-nodegroup-0"
    ELSE IF HasSuffix(s.StackName, "-DefaultNodeGroup") THEN "legacy-default"
    ELSE ""

\* the value the loop over the tags leaves in nodeGroupType: every type tag
\* assigns it, so the last one stays; "" when there is none
ScannedNodeGroupType(tags) ==
    LET i == LastIndex(tags, {NodeGroupTypeTag})
    IN  IF i = 0 THEN "" ELSE tags[i].Value

\* faulty variant: the type is not defaulted to unmanaged
GetNodeGroupType_noDefault(tags) ==
    IF GetNodegroupTagName(tags) = ""
    THEN [type |-> "", err |-> "failed to find the nodegroup name tag"]
    ELSE [type |-> ScannedNodeGroupType(tags), err |-> NilError]

\* faulty variant: the name tag is not looked for
GetNodeGroupType_noNameCheck(tags) ==
    [type |-> IF ScannedNodeGroupType(tags) = "" THEN NodeGroupTypeUnmanaged
              ELSE ScannedNodeGroupType(tags),
     err |-> NilError]

GetNodeGroupType(tags) ==
    IF GetNodegroupTagName(tags) = ""
    THEN [type |-> "", err |-> "failed to find the nodegroup name tag"]
    ELSE [type |-> IF ScannedNodeGroupType(tags) = "" THEN NodeGroupTypeUnmanaged
                   ELSE ScannedNodeGroupType(tags),
          err |-> NilError]

\* semver.Version{}
ZeroVersion == [Major |-> 0, Minor |-> 0, Patch |-> 0]

\* version.ParseEksctlVersion: a semantic version parses, anything else is an error
ParseEksctlVersion(raw) ==
    CASE raw = "0.50.0" -> [v |-> [Major |-> 0, Minor |-> 50, Patch |-> 0], err |-> NilError]
      [] raw = "1.2.3" -> [v |-> [Major |-> 1, Minor |-> 2, Patch |-> 3], err |-> NilError]
      [] OTHER -> [v |-> ZeroVersion, err |-> "No Major.Minor.Patch elements found"]

\* faulty variant: a version tag that does not parse is skipped
GetEksctlVersionFromTags_silent(tags) ==
    LET i == FirstIndex(tags, {EksctlVersionTag})
    IN  IF i = 0 \/ ParseEksctlVersion(tags[i].Value).err # NilError
        THEN [v |-> ZeroVersion, found |-> FALSE, err |-> NilError]
        ELSE [v |-> ParseEksctlVersion(tags[i].Value).v, found |-> TRUE, err |-> NilError]

\* the loop returns at the first version tag, parsed or not
GetEksctlVersionFromTags(tags) ==
    LET i == FirstIndex(tags, {EksctlVersionTag})
    IN  IF i = 0 THEN [v |-> ZeroVersion, found |-> FALSE, err |-> NilError]
        ELSE LET p == ParseEksctlVersion(tags[i].Value)
             IN  IF p.err # NilError
                 THEN [v |-> p.v, found |-> FALSE,
                       err |-> "unexpected error parsing eksctl version \""
                               \o tags[i].Value \o "\": " \o p.err]
                 ELSE [v |-> p.v, found |-> TRUE, err |-> NilError]

-----------------------------------------------------------------------------
(* The stacks the resolvers are applied to.                                 *)

NameKeys == {NodeGroupNameTag, OldNodeGroupNameTag, OldNodeGroupIDTag}

TagKeys == NameKeys \cup {NodeGroupTypeTag, EksctlVersionTag, "owner"}

\* the values a tag of the given key is given in the model
TagValues(key) ==
    IF key \in NameKeys THEN {"", "ng-1", "ng-2"}
    ELSE IF key = NodeGroupTypeTag THEN {"", NodeGroupTypeManaged, NodeGroupTypeUnmanaged, "spot"}
    ELSE IF key = EksctlVersionTag THEN {"0.50.0", "1.2.3", "bogus"}
    ELSE {"team-a"}

AllTags == UNION {{[Key |-> k, Value |-> v] : v \in TagValues(k)} : k \in TagKeys}

\* a stack's tags: a list with no key twice
TagLists ==
    UNION {{t \in [1..n -> AllTags] :
               \A i, j \in 1..n : t[i].Key = t[j].Key => i = j} : n \in 0..MaxStackTags}

StackNames ==
    {p \o s : p \in {"", "eksctl-c1"},
              s \in {"-nodegroup-0", "-DefaultNodeGroup", "-nodegroup-ng-1", "-cluster"}}

\* the task's variables, left alone by the resolvers
TaskIdle ==
    /\ ng = [Name |-> "", Tags |-> <<>>, DisableASGTagPropagation |-> "nil"]
    /\ eks = [err |-> NilError, Resources |-> NilResources]
    /\ asg = [err |-> NilError]
    /\ taskState = "idle"
    /\ ret = "none"
    /\ calls = <<>>
    /\ sending = <<>>
    /\ received = <<>>

\* the listing's variables, left alone by the other operations
ListIdle ==
    /\ rawStacks = [stacks |-> <<>>, err |-> NilError]
    /\ listed = [op |-> "none"]

\* the task group's variables, left alone by the other operations
GroupIdle ==
    /\ invocations = <<>>
    /\ errs = [sending |-> <<>>, received |-> <<>>]

\* UpdateStack's variable, left alone by the other operations
UpdateIdle == update = [pc |-> "idle"]

\* TagBatcher's variable, left alone by the other operations
BatcherIdle == batcher = [op |-> "none"]

InitResolver ==
    /\ stack \in [StackName : StackNames, Tags : TagLists]
    /\ result = [op |-> "none"]
    /\ TaskIdle
    /\ ListIdle
    /\ GroupIdle
    /\ UpdateIdle
    /\ BatcherIdle

CallGetNodegroupTagName ==
    /\ result' = [op |-> "GetNodegroupTagName", name |-> GetNodegroupTagName(stack.Tags)]
    /\ UNCHANGED <<stack, taskVars, moreVars>>

CallGetNodeGroupName ==
    /\ result' = [op |-> "GetNodeGroupName", name |-> GetNodeGroupName(stack)]
    /\ UNCHANGED <<stack, taskVars, moreVars>>

CallGetNodeGroupType ==
    /\ result' = [op |-> "GetNodeGroupType",
                  type |-> GetNodeGroupType(stack.Tags).type,
                  err |-> GetNodeGroupType(stack.Tags).err]
    /\ UNCHANGED <<stack, taskVars, moreVars>>

CallGetEksctlVersionFromTags ==
    /\ result' = [op |-> "GetEksctlVersionFromTags",
                  v |-> GetEksctlVersionFromTags(stack.Tags).v,
                  found |-> GetEksctlVersionFromTags(stack.Tags).found,
                  err |-> GetEksctlVersionFromTags(stack.Tags).err]
    /\ UNCHANGED <<stack, taskVars, moreVars>>

NextResolver ==
    \/ CallGetNodegroupTagName
    \/ CallGetNodeGroupName
    \/ CallGetNodeGroupType
    \/ CallGetEksctlVersionFromTags

SpecResolver == InitResolver /\ [][NextResolver]_vars


-----------------------------------------------------------------------------
(* Tag propagation: propagateManagedNodeGroupTagsToASGTask.                 *)

\* builder.MaximumTagNumber: most tags an autoscaling group may carry
MaximumTagNumber == 50
\* builder.MaximumCreatedTagNumberPerCall: most tags of one CreateOrUpdateTags call
MaximumCreatedTagNumberPerCall == 25

TagKey(i) == "tag_key_" \o ToString(i)

\* a node group's tag map with n tags: tag_key_i -> tag_value_i
TagMap(n) ==
    [k \in {TagKey(i) : i \in 1..n} |-> "tag_value_" \o SubSeq(k, 9, Len(k))]

\* the keys of a tag map in one of the orders `range` may visit them: the
\* order is not specified, and MaxOrders of them (rotations) are explored
RangeOrder(tags, o) ==
    LET n == Cardinality(DOMAIN tags)
    IN  [i \in 1..n |-> TagKey(((i - 1 + o) % n) + 1)]

\* the autoscaling groups DescribeNodegroup reports
AutoScalingGroups(k) == [i \in 1..k |-> [Name |-> "asg-" \o ToString(i)]]

\* errors.Wrapf
Wrapf(err, message) == message \o ": " \o err

\* faulty variant: the tag is propagated to the instances at launch
AsgTag_propagateAtLaunch(asgName, ngTagKey, ngTagValue) ==
    [ResourceId |-> asgName,
     ResourceType |-> "auto-scaling-group",
     Key |-> ngTagKey,
     Value |-> ngTagValue,
     PropagateAtLaunch |-> TRUE]

\* the autoscaling.Tag built for one autoscaling group and one tag
AsgTag(asgName, ngTagKey, ngTagValue) ==
    [ResourceId |-> asgName,
     ResourceType |-> "auto-scaling-group",
     Key |-> ngTagKey,
     Value |-> ngTagValue,
     PropagateAtLaunch |-> FALSE]

\* asgTags after the two nested loops: for each autoscaling group in turn,
\* one tag per entry of the tag map, in the order order[a] visits the map
RECURSIVE BuildAsgTags(_, _, _)
BuildAsgTags(groups, tags, order) ==
    IF groups = <<>> THEN <<>>
    ELSE LET keys == RangeOrder(tags, order[Len(groups)])
             last == groups[Len(groups)]
         IN  BuildAsgTags(SubSeq(groups, 1, Len(groups) - 1), tags, order)
                 \o [i \in 1..Len(keys) |-> AsgTag(last.Name, keys[i], tags[keys[i]])]

DescribeNodegroupCall ==
    [api |-> "DescribeNodegroup", NodegroupName |-> ng.Name, Tags |-> <<>>]

CreateOrUpdateTagsCall(asgTags) ==
    [api |-> "CreateOrUpdateTags", NodegroupName |-> ng.Name, Tags |-> asgTags]

InitTask ==
    /\ stack = [StackName |-> "", Tags |-> <<>>]
    /\ result = [op |-> "none"]
    /\ \E n \in 0..MaxNgTags, d \in {"nil", "true", "false"} :
           ng = [Name |-> "ng-1", Tags |-> TagMap(n), DisableASGTagPropagation |-> d]
    /\ \/ eks = [err |-> "ResourceNotFoundException", Resources |-> NilResources]
       \/ eks = [err |-> NilError, Resources |-> NilResources]
       \/ \E k \in 0..MaxASGs :
              eks = [err |-> NilError,
                     Resources |-> [IsNil |-> FALSE,
                                    AutoScalingGroups |-> AutoScalingGroups(k)]]
    /\ asg \in {[err |-> NilError], [err |-> "ValidationError"]}
    /\ taskState = "ready"
    /\ ret = "none"
    /\ calls = <<>>
    /\ sending = <<>>
    /\ received = <<>>
    /\ ListIdle
    /\ GroupIdle
    /\ UpdateIdle
    /\ BatcherIdle

Disabled == ng.DisableASGTagPropagation = "true"

\* ng.DisableASGTagPropagation is set and true: return nil
TaskDisabled ==
    /\ taskState = "ready"
    /\ Disabled
    /\ taskState' = "returned"
    /\ ret' = NilError
    /\ UNCHANGED <<stack, result, ng, eks, asg, calls, sending, received, moreVars>>

\* DescribeNodegroup fails: return the wrapped error
TaskDescribeFails ==
    /\ taskState = "ready"
    /\ ~Disabled
    /\ eks.err # NilError
    /\ taskState' = "returned"
    /\ calls' = Append(calls, DescribeNodegroupCall)
    /\ ret' = Wrapf(eks.err, "couldn't get managed nodegroup details for nodegroup \""
                               \o ng.Name \o "\"")
    /\ UNCHANGED <<stack, result, ng, eks, asg, sending, received, moreVars>>

\* the node group has no Resources: start the goroutine that sends nil, return nil
TaskNoResources ==
    /\ taskState = "ready"
    /\ ~Disabled
    /\ eks.err = NilError
    /\ eks.Resources.IsNil
    /\ taskState' = "returned"
    /\ calls' = Append(calls, DescribeNodegroupCall)
    /\ sending' = Append(sending, NilError)
    /\ ret' = NilError
    /\ UNCHANGED <<stack, result, ng, eks, asg, received, moreVars>>

\* CreateOrUpdateTags is called once with every tag built, and fails: return
\* the wrapped error
TaskTaggingFails ==
    /\ taskState = "ready"
    /\ ~Disabled
    /\ eks.err = NilError
    /\ ~eks.Resources.IsNil
    /\ asg.err # NilError
    /\ \E order \in [1..Len(eks.Resources.AutoScalingGroups) -> 0..(MaxOrders - 1)] :
           calls' = calls \o <<DescribeNodegroupCall,
                               CreateOrUpdateTagsCall(BuildAsgTags(
                                   eks.Resources.AutoScalingGroups, ng.Tags, order))>>
    /\ taskState' = "returned"
    /\ ret' = Wrapf(asg.err, "creating or updating asg tags for managed nodegroup \""
                               \o ng.Name \o "\"")
    /\ UNCHANGED <<stack, result, ng, eks, asg, sending, received, moreVars>>

\* faulty variant: nil is sent on errorCh by the task itself, which waits in
\* the send for a reader and has not returned
TaskTagged_sendInline ==
    /\ taskState = "ready"
    /\ ~Disabled
    /\ eks.err = NilError
    /\ ~eks.Resources.IsNil
    /\ asg.err = NilError
    /\ \E order \in [1..Len(eks.Resources.AutoScalingGroups) -> 0..(MaxOrders - 1)] :
           calls' = calls \o <<DescribeNodegroupCall,
                               CreateOrUpdateTagsCall(BuildAsgTags(
                                   eks.Resources.AutoScalingGroups, ng.Tags, order))>>
    /\ taskState' = "sending"
    /\ sending' = Append(sending, NilError)
    /\ UNCHANGED <<stack, result, ng, eks, asg, ret, received, moreVars>>

\* CreateOrUpdateTags is called once with every tag built, and succeeds:
\* start the goroutine that sends nil, return nil
TaskTagged ==
    /\ taskState = "ready"
    /\ ~Disabled
    /\ eks.err = NilError
    /\ ~eks.Resources.IsNil
    /\ asg.err = NilError
    /\ \E order \in [1..Len(eks.Resources.AutoScalingGroups) -> 0..(MaxOrders - 1)] :
           calls' = calls \o <<DescribeNodegroupCall,
                               CreateOrUpdateTagsCall(BuildAsgTags(
                                   eks.Resources.AutoScalingGroups, ng.Tags, order))>>
    /\ taskState' = "returned"
    /\ sending' = Append(sending, NilError)
    /\ ret' = NilError
    /\ UNCHANGED <<stack, result, ng, eks, asg, received, moreVars>>

propagateManagedNodeGroupTagsToASGTask ==
    \/ TaskDisabled
    \/ TaskDescribeFails
    \/ TaskNoResources
    \/ TaskTaggingFails
    \/ TaskTagged

\* a reader takes the value of a goroutine blocked in its send on errorCh
Receive ==
    /\ sending # <<>>
    /\ received' = Append(received, Head(sending))
    /\ sending' = Tail(sending)
    /\ UNCHANGED <<stack, result, ng, eks, asg, taskState, ret, calls, moreVars>>

NextTask ==
    \/ propagateManagedNodeGroupTagsToASGTask
    \/ Receive

SpecTask == InitTask /\ [][NextTask]_vars

-----------------------------------------------------------------------------
(* Properties of tag propagation, over a task that has returned.           *)

\* the values written to errorCh: taken by a reader, or held by a goroutine
\* that is blocked in its send
Written == received \o sending

\* the external calls of the given api the task has made
CallsTo(api) == SelectSeq(calls, LAMBDA c : c.api = api)

\* message has part as a substring
Contains(message, part) ==
    \E i \in 1..(Len(message) - Len(part) + 1) :
        SubSeq(message, i, i + Len(part) - 1) = part

\* the number of tag records the task has to propagate: one per autoscaling
\* group and tag of the node group
NumRecords == Len(eks.Resources.AutoScalingGroups) * Cardinality(DOMAIN ng.Tags)

\* the least number of calls of at most size records that carry n records
CeilDiv(n, size) == (n + size - 1) \div size

\* C1 as stated: with more than MaximumTagNumber tags and propagation not
\* disabled, the task makes no external call, returns nil, and writes to the
\* result channel an error whose message contains "maximum amount for asg".
C1_AsStated ==
    (/\ taskState = "returned"
     /\ ~Disabled
     /\ Cardinality(DOMAIN ng.Tags) > MaximumTagNumber)
        => /\ calls = <<>>
           /\ ret = NilError
           /\ Len(Written) = 1
           /\ Written[1] # NilError
           /\ Contains(Written[1], "maximum amount for asg")

\* C2 as stated: every CreateOrUpdateTags call carries at most
\* MaximumCreatedTagNumberPerCall records, and a propagation of N records
\* whose calls all succeed issues ceil(N / MaximumCreatedTagNumberPerCall)
\* calls and reports nil; 30 tags of one autoscaling group go in two calls of
\* 25 and 5 records.
C2_AsStated ==
    (/\ taskState = "returned"
     /\ ~Disabled
     /\ eks.err = NilError
     /\ ~eks.Resources.IsNil
     /\ NumRecords >= 1
     /\ Cardinality(DOMAIN ng.Tags) <= MaximumTagNumber)
        => /\ \A i \in 1..Len(calls) :
                  Len(calls[i].Tags) <= MaximumCreatedTagNumberPerCall
           /\ asg.err = NilError =>
                  /\ Len(CallsTo("CreateOrUpdateTags"))
                         = CeilDiv(NumRecords, MaximumCreatedTagNumberPerCall)
                  /\ Written = <<NilError>>
                  /\ NumRecords = 30 =>
                         /\ Len(CallsTo("CreateOrUpdateTags")[1].Tags) = 25
                         /\ Len(CallsTo("CreateOrUpdateTags")[2].Tags) = 5

\* C3 as stated: the task returns nil on every path; a failure is never its
\* return value.
C3_AsStated == taskState = "returned" => ret = NilError

\* C4 as stated: every invocation of the task writes exactly one value to the
\* result channel, nil on success and an error otherwise.
C4_AsStated ==
    taskState = "returned"
        => /\ Len(Written) = 1
           /\ (Written[1] = NilError) <=>
                  (Disabled \/ (eks.err = NilError /\ (eks.Resources.IsNil \/ asg.err = NilError)))

\* C5 as stated: with propagation disabled the task makes no external call
\* and delivers nil on the result channel.
C5_AsStated ==
    (taskState = "returned" /\ Disabled)
        => (calls = <<>> /\ Written = <<NilError>>)

-----------------------------------------------------------------------------
(* Properties of the resolvers, over the stack a resolver was applied to.   *)

HasKey(tags, key) == \E i \in 1..Len(tags) : tags[i].Key = key

HasNameKey(tags) == \E i \in 1..Len(tags) : tags[i].Key \in NameKeys

\* the tag of the list that comes before every other name-identifying tag
IsFirstNameTag(tags, i) ==
    /\ i \in 1..Len(tags)
    /\ tags[i].Key \in NameKeys
    /\ \A j \in 1..(i - 1) : tags[j].Key \notin NameKeys

\* s = p \o suffix for some p
EndsIn(s, suffix) == \E n \in 0..Len(s) : s = SubSeq(s, 1, n) \o suffix

\* C6 as stated: with a name-identifying key in the tag set, whatever its
\* value, GetNodeGroupType returns no error, and the type is Unmanaged if and
\* only if there is no type tag.
C6_AsStated ==
    (result.op = "GetNodeGroupType" /\ HasNameKey(stack.Tags))
        => /\ result.err = NilError
           /\ (result.type = NodeGroupTypeUnmanaged) <=> ~HasKey(stack.Tags, NodeGroupTypeTag)

\* C6 amended: when the first name-identifying tag of the list has a
\* non-empty value, GetNodeGroupType returns no error; the type is Unmanaged
\* when there is no type tag or its value is empty, and the type tag's value
\* otherwise. When that first name-identifying tag has an empty value,
\* GetNodeGroupType returns an error.
C6_TypeOfNamedStack ==
    /\ (/\ result.op = "GetNodeGroupType"
        /\ \E i \in 1..Len(stack.Tags) :
               IsFirstNameTag(stack.Tags, i) /\ stack.Tags[i].Value = "")
           => result.err # NilError
    /\ (/\ result.op = "GetNodeGroupType"
        /\ \E i \in 1..Len(stack.Tags) :
               IsFirstNameTag(stack.Tags, i) /\ stack.Tags[i].Value # "")
           => /\ result.err = NilError
              /\ \A i \in 1..Len(stack.Tags) :
                     (stack.Tags[i].Key = NodeGroupTypeTag /\ stack.Tags[i].Value # "")
                         => result.type = stack.Tags[i].Value
              /\ (\A i \in 1..Len(stack.Tags) :
                     stack.Tags[i].Key = NodeGroupTypeTag => stack.Tags[i].Value = "")
                         => result.type = NodeGroupTypeUnmanaged

\* a named stack without a type tag was resolved
C6_Witness ==
    /\ result.op = "GetNodeGroupType"
    /\ \E i \in 1..Len(stack.Tags) : IsFirstNameTag(stack.Tags, i) /\ stack.Tags[i].Value = "ng-1"
    /\ ~HasKey(stack.Tags, NodeGroupTypeTag)
    /\ result.type = NodeGroupTypeUnmanaged

\* C7: with none of the three name-identifying keys in the tag set,
\* GetNodeGroupType returns an error and the empty type, type tag or not.
C7_NoNameKeyIsAnError ==
    (result.op = "GetNodeGroupType" /\ ~HasNameKey(stack.Tags))
        => (result.err # NilError /\ result.type = "")

\* a stack with a type tag and no name key was resolved
C7_Witness ==
    /\ result.op = "GetNodeGroupType"
    /\ ~HasNameKey(stack.Tags)
    /\ \E i \in 1..Len(stack.Tags) :
           stack.Tags[i].Key = NodeGroupTypeTag /\ stack.Tags[i].Value = NodeGroupTypeManaged
    /\ result.err # NilError

\* the value stored under key; the key is in the list
ValueOf(tags, key) == tags[CHOOSE i \in 1..Len(tags) : tags[i].Key = key].Value

\* the name the stack-name suffixes give
SuffixName(name) ==
    IF EndsIn(name, "-nodegroup-0") THEN "legacy-nodegroup-0"
    ELSE IF EndsIn(name, "-DefaultNodeGroup") THEN "legacy-default"
    ELSE ""

\* C8 as stated: GetNodeGroupName resolves by key precedence, whatever the
\* order of the tags: the current name tag's value if present, else the
\* legacy name tag's, else the legacy id tag's, else the suffix heuristics.
C8_AsStated ==
    result.op = "GetNodeGroupName"
        => result.name =
               IF HasKey(stack.Tags, NodeGroupNameTag) THEN ValueOf(stack.Tags, NodeGroupNameTag)
               ELSE IF HasKey(stack.Tags, OldNodeGroupNameTag)
                    THEN ValueOf(stack.Tags, OldNodeGroupNameTag)
               ELSE IF HasKey(stack.Tags, OldNodeGroupIDTag)
                    THEN ValueOf(stack.Tags, OldNodeGroupIDTag)
               ELSE SuffixName(stack.StackName)

\* C8 amended: GetNodeGroupName returns the value of the first
\* name-identifying tag in the stack's tag order, whichever of the three keys
\* it has, when that value is not empty; otherwise what the stack-name
\* suffix heuristics give, else the empty string.
C8_FirstNameTagInListOrder ==
    result.op = "GetNodeGroupName"
        => /\ \A i \in 1..Len(stack.Tags) :
                  (IsFirstNameTag(stack.Tags, i) /\ stack.Tags[i].Value # "")
                      => result.name = stack.Tags[i].Value
           /\ (\A i \in 1..Len(stack.Tags) :
                  IsFirstNameTag(stack.Tags, i) => stack.Tags[i].Value = "")
                      => result.name = SuffixName(stack.StackName)

\* a stack with a legacy name tag before a different current name tag was resolved
C8_Witness ==
    /\ result.op = "GetNodeGroupName"
    /\ \E i, j \in 1..Len(stack.Tags) :
           /\ i < j
           /\ IsFirstNameTag(stack.Tags, i)
           /\ stack.Tags[i] = [Key |-> OldNodeGroupNameTag, Value |-> "ng-2"]
           /\ stack.Tags[j] = [Key |-> NodeGroupNameTag, Value |-> "ng-1"]
    /\ result.name = "ng-2"

\* C9: for a stack without any identity tag, GetNodeGroupName returns
\* "legacy-nodegroup-0" when the stack name ends in "-nodegroup-0",
\* "legacy-default" when it ends in "-DefaultNodeGroup", "" otherwise.
C9_LegacySuffixNames ==
    (result.op = "GetNodeGroupName" /\ ~HasNameKey(stack.Tags))
        => /\ EndsIn(stack.StackName, "-nodegroup-0") => result.name = "legacy-nodegroup-0"
           /\ EndsIn(stack.StackName, "-DefaultNodeGroup") => result.name = "legacy-default"
           /\ (~EndsIn(stack.StackName, "-nodegroup-0")
                 /\ ~EndsIn(stack.StackName, "-DefaultNodeGroup")) => result.name = ""

\* a stack named by its "-DefaultNodeGroup" suffix alone was resolved
C9_Witness ==
    /\ result.op = "GetNodeGroupName"
    /\ ~HasNameKey(stack.Tags)
    /\ stack.StackName = "eksctl-c1-DefaultNodeGroup"
    /\ result.name = "legacy-default"

\* C10: GetEksctlVersionFromTags returns found = false and no error without a
\* version tag; the parsed version and found = true with a version tag that
\* parses; an error and found = false with one that does not parse.
C10_VersionTagNeverSilentlyIgnored ==
    result.op = "GetEksctlVersionFromTags"
        => /\ ~HasKey(stack.Tags, EksctlVersionTag)
                 => (~result.found /\ result.err = NilError)
           /\ \A i \in 1..Len(stack.Tags) : stack.Tags[i].Key = EksctlVersionTag =>
                  IF ParseEksctlVersion(stack.Tags[i].Value).err = NilError
                  THEN /\ result.found
                       /\ result.err = NilError
                       /\ result.v = ParseEksctlVersion(stack.Tags[i].Value).v
                  ELSE ~result.found /\ result.err # NilError

\* a stack with a version tag that does not parse was resolved
C10_Witness ==
    /\ result.op = "GetEksctlVersionFromTags"
    /\ HasKey(stack.Tags, EksctlVersionTag)
    /\ ValueOf(stack.Tags, EksctlVersionTag) = "bogus"
    /\ result.err # NilError

-----------------------------------------------------------------------------
(* Listing the node-group stacks: DescribeNodeGroupStacks.                  *)

\* longest list of stacks c.DescribeStacks answers
MaxStacks == 2

StackStatusCreateComplete == "CREATE_COMPLETE"
StackStatusDeleteComplete == "DELETE_COMPLETE"
StackStatusDeleteFailed == "DELETE_FAILED"

\* the stacks c.DescribeStacks may answer
ListedStackNames == {"eksctl-c1-nodegroup-0", "eksctl-c1-nodegroup-ng-1", "eksctl-c1-cluster"}

ListedTagLists ==
    {<<>>,
     <<[Key |-> NodeGroupNameTag, Value |-> "ng-1"]>>,
     <<[Key |-> NodeGroupNameTag, Value |-> ""]>>,
     <<[Key |-> OldNodeGroupIDTag, Value |-> "ng-2"],
       [Key |-> NodeGroupTypeTag, Value |-> NodeGroupTypeManaged]>>,
     <<[Key |-> NodeGroupTypeTag, Value |-> NodeGroupTypeManaged]>>}

ListedStacks ==
    [StackName : ListedStackNames,
     StackStatus : {StackStatusCreateComplete, StackStatusDeleteComplete,
                    StackStatusDeleteFailed},
     Tags : ListedTagLists]

\* faulty variant: a stack whose deletion failed is kept in the listing
DescribeNodeGroupStacks_keepFailed(raw) ==
    IF raw.err # NilError THEN [stacks |-> <<>>, err |-> raw.err, warnings |-> <<>>]
    ELSE [stacks |-> SelectSeq(raw.stacks,
                        LAMBDA s : /\ s.StackStatus # StackStatusDeleteComplete
                                   /\ GetNodeGroupName(s) # ""),
          err |-> NilError,
          warnings |-> <<>>]

\* faulty variant: a stack whose deletion failed fails the listing
DescribeNodeGroupStacks_failOnFailed(raw) ==
    IF raw.err # NilError THEN [stacks |-> <<>>, err |-> raw.err, warnings |-> <<>>]
    ELSE IF \E i \in 1..Len(raw.stacks) : raw.stacks[i].StackStatus = StackStatusDeleteFailed
    THEN [stacks |-> <<>>, err |-> "stack deletion failed", warnings |-> <<>>]
    ELSE [stacks |-> SelectSeq(raw.stacks,
                        LAMBDA s : /\ s.StackStatus # StackStatusDeleteComplete
                                   /\ GetNodeGroupName(s) # ""),
          err |-> NilError,
          warnings |-> <<>>]

\* the stacks appended to nodeGroupStacks by the loop, the error, and the
\* names the loop warned about; raw is what c.DescribeStacks answered
DescribeNodeGroupStacks(raw) ==
    IF raw.err # NilError THEN [stacks |-> <<>>, err |-> raw.err, warnings |-> <<>>]
    ELSE IF Len(raw.stacks) = 0 THEN [stacks |-> <<>>, err |-> NilError, warnings |-> <<>>]
    ELSE [stacks |-> SelectSeq(raw.stacks,
                        LAMBDA s : /\ s.StackStatus # StackStatusDeleteComplete
                                   /\ s.StackStatus # StackStatusDeleteFailed
                                   /\ GetNodeGroupName(s) # ""),
          err |-> NilError,
          warnings |-> SelectSeq(raw.stacks,
                          LAMBDA s : s.StackStatus = StackStatusDeleteFailed)]

\* the variables of the other operations, left alone by the listing
ListOthers == <<stack, result, taskVars, invocations, errs, update, batcher>>

InitList ==
    /\ \/ \E n \in 0..MaxStacks : \E l \in [1..n -> ListedStacks] :
              rawStacks = [stacks |-> l, err |-> NilError]
       \/ rawStacks = [stacks |-> <<>>, err |-> "Throttling: Rate exceeded"]
    /\ listed = [op |-> "none"]
    /\ stack = [StackName |-> "", Tags |-> <<>>]
    /\ result = [op |-> "none"]
    /\ TaskIdle
    /\ GroupIdle
    /\ UpdateIdle
    /\ BatcherIdle

CallDescribeNodeGroupStacks ==
    /\ listed' = [op |-> "DescribeNodeGroupStacks",
                  stacks |-> DescribeNodeGroupStacks(rawStacks).stacks,
                  err |-> DescribeNodeGroupStacks(rawStacks).err,
                  warnings |-> DescribeNodeGroupStacks(rawStacks).warnings]
    /\ UNCHANGED <<rawStacks, ListOthers>>

\* faulty variant: a stack whose type cannot be resolved is left out of the list
RECURSIVE ListLoop_skip(_, _)
ListLoop_skip(stacks, nodeGroupStacks) ==
    IF stacks = <<>> THEN [stacks |-> nodeGroupStacks, err |-> NilError]
    ELSE IF GetNodeGroupType(Head(stacks).Tags).err # NilError
    THEN ListLoop_skip(Tail(stacks), nodeGroupStacks)
    ELSE ListLoop_skip(Tail(stacks),
                       Append(nodeGroupStacks,
                              [NodeGroupName |-> GetNodeGroupName(Head(stacks)),
                               Type |-> GetNodeGroupType(Head(stacks).Tags).type,
                               Stack |-> Head(stacks)]))

\* the loop of ListNodeGroupStacks over the stacks still to visit, with the
\* list built so far: the first stack whose type cannot be resolved ends it
\* with that error and no list
RECURSIVE ListLoop(_, _)
ListLoop(stacks, nodeGroupStacks) ==
    IF stacks = <<>> THEN [stacks |-> nodeGroupStacks, err |-> NilError]
    ELSE IF GetNodeGroupType(Head(stacks).Tags).err # NilError
    THEN [stacks |-> <<>>, err |-> GetNodeGroupType(Head(stacks).Tags).err]
    ELSE ListLoop(Tail(stacks),
                  Append(nodeGroupStacks,
                         [NodeGroupName |-> GetNodeGroupName(Head(stacks)),
                          Type |-> GetNodeGroupType(Head(stacks).Tags).type,
                          Stack |-> Head(stacks)]))

\* the list and the error ListNodeGroupStacks returns; raw is what
\* c.DescribeStacks answered
ListNodeGroupStacks(raw) ==
    IF DescribeNodeGroupStacks(raw).err # NilError
    THEN [stacks |-> <<>>, err |-> DescribeNodeGroupStacks(raw).err]
    ELSE ListLoop(DescribeNodeGroupStacks(raw).stacks, <<>>)

CallListNodeGroupStacks ==
    /\ listed' = [op |-> "ListNodeGroupStacks",
                  stacks |-> ListNodeGroupStacks(rawStacks).stacks,
                  err |-> ListNodeGroupStacks(rawStacks).err,
                  warnings |-> DescribeNodeGroupStacks(rawStacks).warnings]
    /\ UNCHANGED <<rawStacks, ListOthers>>

NextList ==
    \/ CallDescribeNodeGroupStacks
    \/ CallListNodeGroupStacks

SpecList == InitList /\ [][NextList]_vars

\* a stack of the raw list the listing has to keep
IsNodeGroupStack(s) ==
    /\ s.StackStatus \notin {StackStatusDeleteComplete, StackStatusDeleteFailed}
    /\ GetNodeGroupName(s) # ""

\* the positions in the raw list of the stacks the listing has to keep
KeptPositions == {i \in 1..Len(rawStacks.stacks) : IsNodeGroupStack(rawStacks.stacks[i])}

\* the position in the raw list of the j-th stack the listing has to keep
KeptPosition(j) ==
    CHOOSE i \in KeptPositions : Cardinality({k \in KeptPositions : k <= i}) = j

\* C11: DescribeNodeGroupStacks returns, in input order, exactly the stacks of
\* the raw list that are neither delete-complete nor delete-failed and whose
\* node-group name is not empty; delete-failed stacks do not fail the listing;
\* a failure of DescribeStacks is returned as the error, with no stacks.
C11_ListsNodeGroupStacksInOrder ==
    listed.op = "DescribeNodeGroupStacks"
        => IF rawStacks.err # NilError
           THEN listed.err = rawStacks.err /\ listed.stacks = <<>>
           ELSE /\ listed.err = NilError
                /\ Len(listed.stacks) = Cardinality(KeptPositions)
                /\ \A j \in 1..Len(listed.stacks) :
                       listed.stacks[j] = rawStacks.stacks[KeptPosition(j)]

\* a raw list with a delete-failed stack before a node-group stack was listed
C11_Witness ==
    /\ listed.op = "DescribeNodeGroupStacks"
    /\ Len(rawStacks.stacks) = 2
    /\ rawStacks.stacks[1].StackStatus = StackStatusDeleteFailed
    /\ GetNodeGroupName(rawStacks.stacks[1]) # ""
    /\ listed.err = NilError
    /\ listed.stacks = <<rawStacks.stacks[2]>>

-----------------------------------------------------------------------------
(* The node-group tasks run on one shared result channel:                   *)
(* createNodeGroupTask, createManagedNodeGroupTask and                      *)
(* propagateManagedNodeGroupTagsToASGTask.                                  *)

\* most tasks run on the shared channel
MaxInvocations == 2

TaskKinds ==
    {"createNodeGroupTask", "createManagedNodeGroupTask",
     "propagateManagedNodeGroupTagsToASGTask"}

\* a nil map[string]string
NilTags == [IsNil |-> TRUE, Map |-> <<>>]

\* the tag maps of the node groups handed to the tasks
GroupTagMaps ==
    {NilTags,
     [IsNil |-> FALSE, Map |-> ("owner" :> "team-a")],
     [IsNil |-> FALSE,
      Map |-> ("owner" :> "team-a" @@ NodeGroupNameTag :> "stale"
                 @@ NodeGroupTypeTag :> NodeGroupTypeManaged)]}

\* the task with number i as it is before it is called
NewInvocation(i, kind, tags, disable, ipv6) ==
    [kind |-> kind,
     ng |-> [Name |-> "ng-" \o ToString(i), Tags |-> tags,
             DisableASGTagPropagation |-> disable],
     tags0 |-> tags,
     IPv6Enabled |-> ipv6,
     state |-> "ready",
     ret |-> "none",
     steps |-> <<>>,
     submitted |-> [Called |-> FALSE, Tags |-> NilTags],
     watcher |-> "none"]

\* one step of a task: a call of a collaborator or an external service, and
\* the error it answered
Step(call, err) == [call |-> call, err |-> err]

\* the variables of the other operations, left alone by the tasks
GroupOthers == <<stack, result, taskVars, rawStacks, listed, update, batcher>>

InitGroup ==
    /\ \E n \in 1..MaxInvocations, ipv6 \in BOOLEAN :
       \E kinds \in [1..n -> TaskKinds], tags \in [1..n -> GroupTagMaps],
          disable \in [1..n -> {"nil", "true", "false"}] :
           /\ \A i \in 1..n :
                  kinds[i] # "propagateManagedNodeGroupTagsToASGTask" => disable[i] = "nil"
           /\ \A i \in 1..n :
                  kinds[i] # "createNodeGroupTask" => tags[i] # NilTags
           /\ invocations =
                  [i \in 1..n |-> NewInvocation(i, kinds[i], tags[i], disable[i], ipv6)]
    /\ errs = [sending |-> <<>>, received |-> <<>>]
    /\ stack = [StackName |-> "", Tags |-> <<>>]
    /\ result = [op |-> "none"]
    /\ TaskIdle
    /\ ListIdle
    /\ UpdateIdle
    /\ BatcherIdle

Ready(i, kind) ==
    /\ i \in 1..Len(invocations)
    /\ invocations[i].kind = kind
    /\ invocations[i].state = "ready"

\* the task with number i returns err after the steps given, without having
\* called CreateStack
ReturnError(i, steps, err) ==
    /\ invocations' = [invocations EXCEPT ![i].state = "returned",
                                          ![i].steps = steps,
                                          ![i].ret = err]
    /\ UNCHANGED <<errs, GroupOthers>>

\* faulty variant: the legacy name tag is not set
WithIdentityTags_noLegacyName(n) ==
    [IsNil |-> FALSE,
     Map |-> (NodeGroupNameTag :> n.Name
                @@ NodeGroupTypeTag :> NodeGroupTypeUnmanaged @@ n.Tags.Map)]

\* ng.Tags after the task has set the identity tags on it
WithIdentityTags(n) ==
    [IsNil |-> FALSE,
     Map |-> (NodeGroupNameTag :> n.Name @@ OldNodeGroupNameTag :> n.Name
                @@ NodeGroupTypeTag :> NodeGroupTypeUnmanaged @@ n.Tags.Map)]

\* c.CreateStack(name, stack, tags, nil, errs): the task with number i has
\* taken the steps given and left ng.Tags as tags; the submission is either
\* refused, which is the returned error, or accepted: nil is returned and a
\* watcher is left behind that will write the outcome to errs
CreateStack(i, steps, tags) ==
    /\ \E accepted \in BOOLEAN :
           invocations' =
               [invocations EXCEPT
                   ![i].state = "returned",
                   ![i].ng.Tags = tags,
                   ![i].submitted = [Called |-> TRUE, Tags |-> tags],
                   ![i].steps = Append(steps,
                       Step("CreateStack",
                            IF accepted THEN NilError ELSE "AlreadyExistsException")),
                   ![i].ret = IF accepted THEN NilError
                              ELSE "creating CloudFormation stack: AlreadyExistsException",
                   ![i].watcher = IF accepted THEN "watching" ELSE "none"]
    /\ UNCHANGED <<errs, GroupOthers>>

\* the watcher CreateStack left behind sees the stack reach a terminal state
\* and writes the outcome to errs
StackWatcher(i) ==
    /\ i \in 1..Len(invocations)
    /\ invocations[i].watcher = "watching"
    /\ invocations' = [invocations EXCEPT ![i].watcher = "done"]
    /\ \E outcome \in {NilError, "unexpected status \"ROLLBACK_COMPLETE\""} :
           errs' = [errs EXCEPT !.sending = Append(@, [from |-> i, value |-> outcome])]
    /\ UNCHANGED GroupOthers

\* nodebootstrap.NewBootstrapper fails
CreateBootstrapperFails(i) ==
    /\ Ready(i, "createNodeGroupTask")
    /\ ReturnError(i, <<Step("NewBootstrapper", "invalid bootstrap configuration")>>,
                   Wrapf("invalid bootstrap configuration", "error creating bootstrapper"))

\* faulty variant: the identity tags are set before the resource set is built
CreateAddResourcesFails_tagsFirst(i) ==
    /\ Ready(i, "createNodeGroupTask")
    /\ invocations' =
           [invocations EXCEPT
               ![i].state = "returned",
               ![i].ng.Tags = WithIdentityTags(invocations[i].ng),
               ![i].steps = <<Step("NewBootstrapper", NilError),
                              Step("AddAllResources", "no subnets")>>,
               ![i].ret = "no subnets"]
    /\ UNCHANGED <<errs, GroupOthers>>

\* stack.AddAllResources fails
CreateAddResourcesFails(i) ==
    /\ Ready(i, "createNodeGroupTask")
    /\ ReturnError(i, <<Step("NewBootstrapper", NilError),
                        Step("AddAllResources", "no subnets")>>,
                   "no subnets")

\* the resource set is built: the identity tags are set and CreateStack is called
CreateSubmits(i) ==
    /\ Ready(i, "createNodeGroupTask")
    /\ CreateStack(i, <<Step("NewBootstrapper", NilError), Step("AddAllResources", NilError)>>,
                   WithIdentityTags(invocations[i].ng))

createNodeGroupTask(i) ==
    \/ CreateBootstrapperFails(i)
    \/ CreateAddResourcesFails(i)
    \/ CreateSubmits(i)

\* c.DescribeClusterStack fails
ManagedDescribeClusterFails(i) ==
    /\ Ready(i, "createManagedNodeGroupTask")
    /\ ReturnError(i, <<Step("DescribeClusterStack", "Throttling: Rate exceeded")>>,
                   "Throttling: Rate exceeded")

\* faulty variant: the IPv6 check is left out
ManagedAfterDescribe_noCheck(i, found) ==
    LET described == <<Step("DescribeClusterStack",
                            IF found THEN NilError ELSE "<nil stack>")>>
    IN  \/ ReturnError(i, Append(described, Step("AddAllResources", "no subnets")),
                       "no subnets")
        \/ CreateStack(i, Append(described, Step("AddAllResources", NilError)),
                       invocations[i].ng.Tags)

\* what the task does once c.DescribeClusterStack has answered without an
\* error, with a cluster stack (found) or with nil
ManagedAfterDescribe(i, found) ==
    LET described == <<Step("DescribeClusterStack",
                            IF found THEN NilError ELSE "<nil stack>")>>
    IN  IF ~found /\ invocations[i].IPv6Enabled
        THEN ReturnError(i, described,
                         "managed nodegroups cannot be created on IPv6 unowned clusters")
        ELSE \/ ReturnError(i, Append(described, Step("AddAllResources", "no subnets")),
                            "no subnets")
             \/ CreateStack(i, Append(described, Step("AddAllResources", NilError)),
                            invocations[i].ng.Tags)

\* the cluster stack is found
ManagedOwnedCluster(i) ==
    /\ Ready(i, "createManagedNodeGroupTask")
    /\ ManagedAfterDescribe(i, TRUE)

\* there is no cluster stack
ManagedUnownedCluster(i) ==
    /\ Ready(i, "createManagedNodeGroupTask")
    /\ ManagedAfterDescribe(i, FALSE)

createManagedNodeGroupTask(i) ==
    \/ ManagedDescribeClusterFails(i)
    \/ ManagedOwnedCluster(i)
    \/ ManagedUnownedCluster(i)

\* the task with number i returns nil after the steps given, having started
\* the goroutine that sends nil on errs
ReturnNilAndSend(i, steps) ==
    /\ invocations' = [invocations EXCEPT ![i].state = "returned",
                                          ![i].steps = steps,
                                          ![i].ret = NilError]
    /\ errs' = [errs EXCEPT !.sending = Append(@, [from |-> i, value |-> NilError])]
    /\ UNCHANGED GroupOthers

\* propagateManagedNodeGroupTagsToASGTask, by the path it takes
PropagateInGroup(i) ==
    /\ Ready(i, "propagateManagedNodeGroupTagsToASGTask")
    /\ IF invocations[i].ng.DisableASGTagPropagation = "true"
       THEN /\ invocations' = [invocations EXCEPT ![i].state = "returned",
                                                  ![i].ret = NilError]
            /\ UNCHANGED <<errs, GroupOthers>>
       ELSE \/ ReturnError(i, <<Step("DescribeNodegroup", "ResourceNotFoundException")>>,
                  Wrapf("ResourceNotFoundException",
                        "couldn't get managed nodegroup details for nodegroup \""
                            \o invocations[i].ng.Name \o "\""))
            \/ ReturnNilAndSend(i, <<Step("DescribeNodegroup", NilError)>>)
            \/ ReturnError(i, <<Step("DescribeNodegroup", NilError),
                                Step("CreateOrUpdateTags", "ValidationError")>>,
                  Wrapf("ValidationError",
                        "creating or updating asg tags for managed nodegroup \""
                            \o invocations[i].ng.Name \o "\""))
            \/ ReturnNilAndSend(i, <<Step("DescribeNodegroup", NilError),
                                     Step("CreateOrUpdateTags", NilError)>>)

\* a reader of errs takes the value of one of the goroutines blocked in a send
GroupReceive ==
    /\ \E j \in 1..Len(errs.sending) :
           errs' = [sending |-> SubSeq(errs.sending, 1, j - 1)
                                    \o SubSeq(errs.sending, j + 1, Len(errs.sending)),
                    received |-> Append(errs.received, errs.sending[j])]
    /\ UNCHANGED <<invocations, GroupOthers>>

NextGroup ==
    \/ \E i \in 1..MaxInvocations + 1 : createNodeGroupTask(i)
    \/ \E i \in 1..MaxInvocations + 1 : createManagedNodeGroupTask(i)
    \/ \E i \in 1..MaxInvocations + 1 : PropagateInGroup(i)
    \/ \E i \in 1..MaxInvocations + 1 : StackWatcher(i)
    \/ GroupReceive

SpecGroup == InitGroup /\ [][NextGroup]_vars

-----------------------------------------------------------------------------
(* Properties of the node-group tasks.                                      *)

\* the task with number i took a step that called `call`
Called(i, call) ==
    \E k \in 1..Len(invocations[i].steps) : invocations[i].steps[k].call = call

\* the task with number i took a step that called `call`, which failed
Failed(i, call) ==
    \E k \in 1..Len(invocations[i].steps) :
        /\ invocations[i].steps[k].call = call
        /\ invocations[i].steps[k].err # NilError

\* the values written to errs for the task with number i: taken by the
\* reader, or held by a goroutine blocked in its send
WrittenFor(i) ==
    SelectSeq(errs.received \o errs.sending, LAMBDA w : w.from = i)

\* C12: when building the bootstrapper or the resource set fails in
\* createNodeGroupTask, the error is the return value, CreateStack is not
\* called, nothing is written to the result channel for that invocation, and
\* the node group's tags are as they were.
C12_BuildFailureIsSynchronous ==
    \A i \in 1..Len(invocations) :
        (/\ invocations[i].kind = "createNodeGroupTask"
         /\ (Failed(i, "NewBootstrapper") \/ Failed(i, "AddAllResources")))
            => /\ invocations[i].state = "returned"
               /\ invocations[i].ret # NilError
               /\ ~Called(i, "CreateStack")
               /\ ~invocations[i].submitted.Called
               /\ invocations[i].watcher = "none"
               /\ WrittenFor(i) = <<>>
               /\ invocations[i].ng.Tags = invocations[i].tags0

\* a createNodeGroupTask failed to build its resource set while another task
\* has had its outcome read from the channel
C12_Witness ==
    \E i, j \in 1..Len(invocations) :
        /\ invocations[i].kind = "createNodeGroupTask"
        /\ Failed(i, "AddAllResources")
        /\ invocations[i].ret = "no subnets"
        /\ \E k \in 1..Len(errs.received) : errs.received[k].from = j

ConflictError == "managed nodegroups cannot be created on IPv6 unowned clusters"

\* the answer of DescribeClusterStack to the task with number i: "error",
\* "found", "not found", or "none" before the call
ClusterAnswer(i) ==
    IF ~Called(i, "DescribeClusterStack") THEN "none"
    ELSE LET e == invocations[i].steps[1].err
         IN  IF e = NilError THEN "found"
             ELSE IF e = "<nil stack>" THEN "not found"
             ELSE "error"

\* C13: createManagedNodeGroupTask refuses with the configuration-conflict
\* error, before it builds a resource set or calls CreateStack, whenever the
\* cluster stack is not found and IPv6 is enabled; with the cluster stack
\* found, or IPv6 not enabled, it goes on to build the resource set.
C13_IPv6NeedsOwnedCluster ==
    \A i \in 1..Len(invocations) :
        (invocations[i].kind = "createManagedNodeGroupTask"
           /\ invocations[i].state = "returned")
            => /\ (ClusterAnswer(i) = "not found" /\ invocations[i].IPv6Enabled)
                      => /\ invocations[i].ret = ConflictError
                         /\ ~Called(i, "AddAllResources")
                         /\ ~Called(i, "CreateStack")
                         /\ WrittenFor(i) = <<>>
               /\ (ClusterAnswer(i) = "found"
                     \/ (ClusterAnswer(i) = "not found" /\ ~invocations[i].IPv6Enabled))
                      => /\ invocations[i].ret # ConflictError
                         /\ Called(i, "AddAllResources")

\* a managed node group was refused on an unowned IPv6 cluster
C13_Witness ==
    \E i \in 1..Len(invocations) :
        /\ invocations[i].kind = "createManagedNodeGroupTask"
        /\ invocations[i].IPv6Enabled
        /\ ClusterAnswer(i) = "not found"
        /\ invocations[i].ret = ConflictError

\* every task has returned and no watcher is left: nothing more will be
\* written to the channel
GroupQuiescent ==
    \A i \in 1..Len(invocations) :
        invocations[i].state = "returned" /\ invocations[i].watcher # "watching"

\* C20 as stated, for the invocations that returned nil (an invocation that
\* failed synchronously has reported to its caller already): every one of
\* them reports its outcome on the shared channel, so that a driver draining
\* one value for each of them terminates.
C20_AsStated ==
    GroupQuiescent
        => \A i \in 1..Len(invocations) :
               invocations[i].ret = NilError => Len(WrittenFor(i)) = 1

-----------------------------------------------------------------------------
(* UpdateStack: the change-set protocol of the stack lifecycle manager.     *)

\* most polls of a status that is still in progress, per wait
MaxPolls == 2

ClusterNameTag == "alpha.eksctl.io/cluster-name"

NoChangeReason == "The submitted information didn't contain changes"

\* message has part as a substring (strings.Contains)
StringContains(message, part) ==
    \E i \in 1..(Len(message) - Len(part) + 1) :
        SubSeq(message, i, i + Len(part) - 1) = part

\* the tags a stack may carry before the update
ExistingTagLists ==
    {<<>>,
     <<[Key |-> "existing", Value |-> "tag"]>>,
     <<[Key |-> "existing", Value |-> "tag"], [Key |-> "meta", Value |-> "old"]>>,
     <<[Key |-> ClusterNameTag, Value |-> "clusteur"], [Key |-> "existing", Value |-> "tag"]>>,
     <<[Key |-> ClusterNameTag, Value |-> "renamed"]>>}

\* the cluster's metadata tags (spec.Metadata.Tags)
MetadataTagMaps ==
    {<<>>, ("meta" :> "data"), ("meta" :> "data" @@ "existing" :> "override")}

\* the keys of a tag list
KeysOf(tags) == {tags[i].Key : i \in 1..Len(tags)}

\* a set of tag keys as a list, in some order
RECURSIVE KeyList(_)
KeyList(keys) ==
    IF keys = {} THEN <<>>
    ELSE LET k == CHOOSE x \in keys : TRUE
         IN  <<k>> \o KeyList(keys \ {k})

\* faulty variant: the three sources are appended, keys are not deduplicated
MergeTags_append(existing, metadata, clusterName) ==
    existing
        \o [i \in 1..Len(KeyList(DOMAIN metadata)) |->
               [Key |-> KeyList(DOMAIN metadata)[i],
                Value |-> metadata[KeyList(DOMAIN metadata)[i]]]]
        \o <<[Key |-> ClusterNameTag, Value |-> clusterName]>>

\* the tag set of the change set: the existing tags, where a metadata tag of
\* the same key replaces the value; then the metadata tags of other keys;
\* then the cluster-name tag, unless that key is there already
MergeTags(existing, metadata, clusterName) ==
    LET kept == [i \in 1..Len(existing) |->
                    IF existing[i].Key \in DOMAIN metadata
                    THEN [Key |-> existing[i].Key, Value |-> metadata[existing[i].Key]]
                    ELSE existing[i]]
        fresh == KeyList(DOMAIN metadata \ KeysOf(existing))
        added == [i \in 1..Len(fresh) |-> [Key |-> fresh[i], Value |-> metadata[fresh[i]]]]
    IN  IF ClusterNameTag \in KeysOf(existing) \cup DOMAIN metadata
        THEN kept \o added
        ELSE kept \o added \o <<[Key |-> ClusterNameTag, Value |-> clusterName]>>

\* one call of the external service by UpdateStack
UpdateCall(api, tags, status, reason) ==
    [api |-> api, Tags |-> tags, Status |-> status, StatusReason |-> reason]

\* the variables of the other operations, left alone by UpdateStack
UpdateOthers == <<stack, result, taskVars, rawStacks, listed, invocations, errs, batcher>>

InitUpdate ==
    /\ \E byRef \in BOOLEAN, wait \in BOOLEAN,
          existing \in ExistingTagLists, metadata \in MetadataTagMaps :
           update = [pc |-> "resolve",
                     options |-> [ByStackRef |-> byRef,
                                  StackName |-> "eksctl-stack",
                                  ChangeSetName |-> "eksctl-changeset",
                                  Wait |-> wait],
                     existing |-> existing,
                     metadata |-> metadata,
                     clusterName |-> "clusteur",
                     polls |-> 0,
                     calls |-> <<>>,
                     ret |-> "none"]
    /\ stack = [StackName |-> "", Tags |-> <<>>]
    /\ result = [op |-> "none"]
    /\ TaskIdle
    /\ ListIdle
    /\ GroupIdle
    /\ BatcherIdle

\* UpdateStack returns err after the call given
UpdateReturns(call, err) ==
    /\ update' = [update EXCEPT !.pc = "done", !.calls = Append(@, call), !.ret = err]
    /\ UNCHANGED UpdateOthers

\* UpdateStack goes on to pc after the call given
UpdateGoes(call, pc, polls) ==
    /\ update' = [update EXCEPT !.pc = pc, !.calls = Append(@, call), !.polls = polls]
    /\ UNCHANGED UpdateOthers

\* step 1: the stack reference is used when given; otherwise the stack is
\* described by name, and a stack that is not found ends the update
UpdateResolve ==
    /\ update.pc = "resolve"
    /\ IF update.options.ByStackRef
       THEN /\ update' = [update EXCEPT !.pc = "createChangeSet"]
            /\ UNCHANGED UpdateOthers
       ELSE \/ UpdateGoes(UpdateCall("DescribeStacks", <<>>, "CREATE_COMPLETE", ""),
                          "createChangeSet", 0)
            \/ UpdateReturns(UpdateCall("DescribeStacks", <<>>, "not found", ""),
                             "no eksctl-managed CloudFormation stacks found for \"eksctl-stack\"")

\* steps 2 and 3: the change set is requested with the merged tags
UpdateCreateChangeSet ==
    /\ update.pc = "createChangeSet"
    /\ LET tags == MergeTags(update.existing, update.metadata, update.clusterName)
       IN  \/ UpdateGoes(UpdateCall("CreateChangeSet", tags, "accepted", ""), "waitChangeSet", 0)
           \/ UpdateReturns(UpdateCall("CreateChangeSet", tags, "refused", ""),
                            "creating ChangeSet \"eksctl-changeset\" for stack \"eksctl-stack\": ValidationError")

\* faulty variant: a failed change set is an error whatever its reason
UpdateChangeSetFailed_strict(reason) ==
    UpdateReturns(UpdateCall("DescribeChangeSet", <<>>, "FAILED", reason),
                  "ChangeSet \"eksctl-changeset\" failed: " \o reason)

\* step 5: the change set has failed for the reason given
UpdateChangeSetFailed(reason) ==
    UpdateReturns(UpdateCall("DescribeChangeSet", <<>>, "FAILED", reason),
                  IF StringContains(reason, "didn't contain changes") THEN NilError
                  ELSE "ChangeSet \"eksctl-changeset\" failed: " \o reason)

\* step 4: the change set is polled until it is in a terminal state
UpdateWaitChangeSet ==
    /\ update.pc = "waitChangeSet"
    /\ \/ /\ update.polls < MaxPolls
          /\ UpdateGoes(UpdateCall("DescribeChangeSet", <<>>, "CREATE_IN_PROGRESS", ""),
                        "waitChangeSet", update.polls + 1)
       \/ UpdateGoes(UpdateCall("DescribeChangeSet", <<>>, "CREATE_COMPLETE", ""), "execute", 0)
       \/ \E reason \in {NoChangeReason, "Template format error"} :
              UpdateChangeSetFailed(reason)

\* faulty variant: the stack is waited for whatever options.Wait says
UpdateExecuted_alwaysWait(wait) ==
    UpdateGoes(UpdateCall("ExecuteChangeSet", <<>>, "accepted", ""), "waitStack", 0)

\* step 7, first half: ExecuteChangeSet is accepted; without wait that is the end
UpdateExecuted(wait) ==
    IF wait
    THEN UpdateGoes(UpdateCall("ExecuteChangeSet", <<>>, "accepted", ""), "waitStack", 0)
    ELSE UpdateReturns(UpdateCall("ExecuteChangeSet", <<>>, "accepted", ""), NilError)

\* step 6: the change set is executed
UpdateExecute ==
    /\ update.pc = "execute"
    /\ \/ UpdateExecuted(update.options.Wait)
       \/ UpdateReturns(UpdateCall("ExecuteChangeSet", <<>>, "refused", ""),
                        "executing CloudFormation ChangeSet \"eksctl-changeset\" for stack \"eksctl-stack\": ValidationError")

\* step 7, second half: the stack is polled until its update is in a terminal state
UpdateWaitStack ==
    /\ update.pc = "waitStack"
    /\ \/ /\ update.polls < MaxPolls
          /\ UpdateGoes(UpdateCall("DescribeStacksRequest", <<>>, "UPDATE_IN_PROGRESS", ""),
                        "waitStack", update.polls + 1)
       \/ UpdateReturns(UpdateCall("DescribeStacksRequest", <<>>, "UPDATE_COMPLETE", ""), NilError)
       \/ UpdateReturns(UpdateCall("DescribeStacksRequest", <<>>, "UPDATE_ROLLBACK_COMPLETE", ""),
                        "unexpected status \"UPDATE_ROLLBACK_COMPLETE\" while waiting for CloudFormation stack \"eksctl-stack\"")

NextUpdate ==
    \/ UpdateResolve
    \/ UpdateCreateChangeSet
    \/ UpdateWaitChangeSet
    \/ UpdateExecute
    \/ UpdateWaitStack

SpecUpdate == InitUpdate /\ [][NextUpdate]_vars

-----------------------------------------------------------------------------
(* Properties of UpdateStack.                                               *)

\* UpdateStack has made a call of the api that was answered with the status
UpdateCalled(api, status) ==
    \E i \in 1..Len(update.calls) :
        update.calls[i].api = api /\ update.calls[i].Status = status

\* the calls UpdateStack has made of the api
UpdateCallsTo(api) == SelectSeq(update.calls, LAMBDA c : c.api = api)

\* the change set has failed with a reason that says there is nothing to change
NoChangesRequired ==
    \E i \in 1..Len(update.calls) :
        /\ update.calls[i].api = "DescribeChangeSet"
        /\ update.calls[i].Status = "FAILED"
        /\ StringContains(update.calls[i].StatusReason, "didn't contain changes")

\* C14: once the change set has failed with a status reason containing
\* "didn't contain changes", UpdateStack has returned nil, has made no
\* ExecuteChangeSet call and has not polled the stack status, whether the
\* stack was given by name or by reference.
C14_NoChangesIsSuccess ==
    NoChangesRequired =>
        /\ update.pc = "done"
        /\ update.ret = NilError
        /\ UpdateCallsTo("ExecuteChangeSet") = <<>>
        /\ UpdateCallsTo("DescribeStacksRequest") = <<>>
        /\ update.calls[Len(update.calls)].api = "DescribeChangeSet"
        /\ Len(UpdateCallsTo("DescribeStacks")) = IF update.options.ByStackRef THEN 0 ELSE 1

C14_Witness ==
    /\ NoChangesRequired
    /\ update.options.ByStackRef
    /\ update.ret = NilError
    /\ UpdateCalled("DescribeChangeSet", "CREATE_IN_PROGRESS")

\* C15: when ExecuteChangeSet has been accepted and wait is false, UpdateStack
\* has returned nil with that call as its last one, and no stack-status poll
\* was made; when wait is true, UpdateStack has returned only if its last call
\* is a stack-status poll that saw an update-terminal status.
C15_WaitDecidesThePolling ==
    UpdateCalled("ExecuteChangeSet", "accepted") =>
        IF update.options.Wait
        THEN update.pc = "done" =>
                 /\ update.calls[Len(update.calls)].api = "DescribeStacksRequest"
                 /\ update.calls[Len(update.calls)].Status
                        \in {"UPDATE_COMPLETE", "UPDATE_ROLLBACK_COMPLETE"}
        ELSE /\ update.pc = "done"
             /\ update.ret = NilError
             /\ update.calls[Len(update.calls)].api = "ExecuteChangeSet"
             /\ UpdateCallsTo("DescribeStacksRequest") = <<>>

C15_Witness ==
    /\ UpdateCalled("ExecuteChangeSet", "accepted")
    /\ ~update.options.Wait
    /\ update.pc = "done"
    /\ update.existing # <<>>

\* the tags the three sources give: existing, metadata, cluster name
SourceTags ==
    {update.existing[i] : i \in 1..Len(update.existing)}
        \cup {[Key |-> k, Value |-> update.metadata[k]] : k \in DOMAIN update.metadata}
        \cup {[Key |-> ClusterNameTag, Value |-> update.clusterName]}

\* the tags of a list, as a set
TagSet(tags) == {tags[i] : i \in 1..Len(tags)}

\* no key occurs twice in the tag list
KeyUnique(tags) ==
    \A i, j \in 1..Len(tags) : tags[i].Key = tags[j].Key => i = j

\* C16 as stated: every existing tag, every metadata tag and the cluster-name
\* tag is in the tag set of CreateChangeSet, and no key is in it twice.
C16_AsStated ==
    \A i \in 1..Len(update.calls) :
        update.calls[i].api = "CreateChangeSet" =>
            /\ SourceTags \subseteq TagSet(update.calls[i].Tags)
            /\ KeyUnique(update.calls[i].Tags)

\* C16: the tag set of CreateChangeSet has no key twice, every tag in it is an
\* existing tag, a metadata tag or the cluster-name tag, every key of those
\* three sources is in it, and a source tag whose key no source gives another
\* value is in it unchanged.
C16_KeyDeduplicatedUnion ==
    \A i \in 1..Len(update.calls) :
        update.calls[i].api = "CreateChangeSet" =>
            LET sent == update.calls[i].Tags
            IN  /\ KeyUnique(sent)
                /\ TagSet(sent) \subseteq SourceTags
                /\ KeysOf(sent) = {t.Key : t \in SourceTags}
                /\ \A t \in SourceTags :
                       (\A u \in SourceTags : u.Key = t.Key => u = t)
                           => t \in TagSet(sent)

C16_Witness ==
    /\ UpdateCalled("CreateChangeSet", "accepted")
    /\ update.existing = <<[Key |-> "existing", Value |-> "tag"]>>
    /\ update.metadata = ("meta" :> "data")
    /\ TagSet(update.calls[Len(update.calls)].Tags) =
           {[Key |-> "existing", Value |-> "tag"],
            [Key |-> "meta", Value |-> "data"],
            [Key |-> ClusterNameTag, Value |-> "clusteur"]}
    /\ Len(update.calls[Len(update.calls)].Tags) = 3

-----------------------------------------------------------------------------
(* TagBatcher: the partition of a record sequence into call-sized chunks.   *)

\* longest record sequence given to TagBatcher
MaxRecords == 5

\* largest maximum chunk size given to TagBatcher
MaxChunk == 3

RecordNames == {"r1", "r2"}

\* the record sequences TagBatcher is applied to
RecordSeqs == UNION {[1..n -> RecordNames] : n \in 0..MaxRecords}

Min(a, b) == IF a < b THEN a ELSE b

\* faulty variant: a final chunk shorter than max is dropped
RECURSIVE TagBatcher_dropShort(_, _)
TagBatcher_dropShort(records, max) ==
    IF Len(records) < max THEN <<>>
    ELSE <<SubSeq(records, 1, max)>>
             \o TagBatcher_dropShort(SubSeq(records, max + 1, Len(records)), max)

\* the chunks of records, each of max records but the last, which has the rest
RECURSIVE TagBatcher(_, _)
TagBatcher(records, max) ==
    IF records = <<>> THEN <<>>
    ELSE LET end == Min(max, Len(records))
         IN  <<SubSeq(records, 1, end)>>
                 \o TagBatcher(SubSeq(records, end + 1, Len(records)), max)

\* the variables of the other operations, left alone by TagBatcher
BatcherOthers == <<stack, result, taskVars, rawStacks, listed, invocations, errs, update>>

InitBatcher ==
    /\ \E records \in RecordSeqs, max \in 1..MaxChunk :
           batcher = [op |-> "input", records |-> records, max |-> max, batches |-> <<>>]
    /\ stack = [StackName |-> "", Tags |-> <<>>]
    /\ result = [op |-> "none"]
    /\ TaskIdle
    /\ ListIdle
    /\ GroupIdle
    /\ UpdateIdle

CallTagBatcher ==
    /\ batcher.op = "input"
    /\ batcher' = [batcher EXCEPT !.op = "TagBatcher",
                                  !.batches = TagBatcher(batcher.records, batcher.max)]
    /\ UNCHANGED BatcherOthers

NextBatcher == CallTagBatcher

SpecBatcher == InitBatcher /\ [][NextBatcher]_vars

\* the sum of the lengths of the batches
RECURSIVE SumOfLengths(_)
SumOfLengths(batches) ==
    IF batches = <<>> THEN 0
    ELSE Len(batches[1]) + SumOfLengths(SubSeq(batches, 2, Len(batches)))

\* the batches one after the other, as one sequence
RECURSIVE Concatenation(_)
Concatenation(batches) ==
    IF batches = <<>> THEN <<>>
    ELSE batches[1] \o Concatenation(SubSeq(batches, 2, Len(batches)))

\* C17: for a record sequence of length N and a maximum size M > 0, the
\* lengths of the batches TagBatcher returns sum to N, every batch has at
\* most M records, there are ceil(N/M) batches, and the batches concatenated
\* in order are the record sequence.
C17_BatchesPartitionTheRecords ==
    batcher.op = "TagBatcher" =>
        /\ SumOfLengths(batcher.batches) = Len(batcher.records)
        /\ \A i \in 1..Len(batcher.batches) : Len(batcher.batches[i]) <= batcher.max
        /\ Len(batcher.batches) = CeilDiv(Len(batcher.records), batcher.max)
        /\ Concatenation(batcher.batches) = batcher.records

C17_Witness ==
    /\ batcher.op = "TagBatcher"
    /\ batcher.records = <<"r1", "r2", "r2", "r1", "r2">>
    /\ batcher.max = 2
    /\ batcher.batches = << <<"r1", "r2">>, <<"r2", "r1">>, <<"r2">> >>

-----------------------------------------------------------------------------
(* Properties of the records of tag propagation.                            *)

\* every record submitted to the tagging API, over all its calls, in order
RECURSIVE RecordsOf(_)
RecordsOf(cs) ==
    IF cs = <<>> THEN <<>>
    ELSE cs[1].Tags \o RecordsOf(SubSeq(cs, 2, Len(cs)))

SubmittedRecords == RecordsOf(CallsTo("CreateOrUpdateTags"))

\* C18: when the task has called the tagging API, the records submitted are
\* one for each pair of an autoscaling group of the node group and a key of
\* its tags, with resource type "auto-scaling-group", the group's name as
\* resource id, the tag's key and value, and propagate-at-launch false; and
\* there is no other record.
C18_OneRecordPerGroupAndKey ==
    CallsTo("CreateOrUpdateTags") # <<>> =>
        LET submitted == SubmittedRecords
            groups == eks.Resources.AutoScalingGroups
        IN  /\ Len(submitted) = NumRecords
            /\ \A a \in 1..Len(groups), k \in DOMAIN ng.Tags :
                   \E i \in 1..Len(submitted) :
                       submitted[i] = [ResourceId |-> groups[a].Name,
                                       ResourceType |-> "auto-scaling-group",
                                       Key |-> k,
                                       Value |-> ng.Tags[k],
                                       PropagateAtLaunch |-> FALSE]
            /\ \A i, j \in 1..Len(submitted) :
                   (/\ submitted[i].ResourceId = submitted[j].ResourceId
                    /\ submitted[i].Key = submitted[j].Key) => i = j

C18_Witness ==
    /\ CallsTo("CreateOrUpdateTags") # <<>>
    /\ Len(eks.Resources.AutoScalingGroups) = 2
    /\ Cardinality(DOMAIN ng.Tags) = 3
    /\ Len(SubmittedRecords) = 6
    /\ SubmittedRecords[1].Key # TagKey(1)
    /\ SubmittedRecords[4].ResourceId = "asg-2"

\* C19 as stated: when the records need more than one call and a tagging
\* call fails, the failing call is the last call made, it is one batch of at
\* most MaximumCreatedTagNumberPerCall records, and its error is written to
\* the result channel.
C19_AsStated ==
    (/\ taskState = "returned"
     /\ NumRecords > MaximumCreatedTagNumberPerCall
     /\ asg.err # NilError
     /\ CallsTo("CreateOrUpdateTags") # <<>>)
        => /\ calls[Len(calls)].api = "CreateOrUpdateTags"
           /\ Len(CallsTo("CreateOrUpdateTags")) = 1
           /\ Len(calls[Len(calls)].Tags) <= MaximumCreatedTagNumberPerCall
           /\ \E i \in 1..Len(Written) :
                  Written[i] # NilError /\ Contains(Written[i], asg.err)

-----------------------------------------------------------------------------
(* The result channel without a reader.                                     *)

\* C21: the task never waits for a reader of the result channel: while it has
\* not returned it can take its step whatever the reader does, once it has
\* made a call or written a value it has returned, with the value still held
\* by the sending goroutine if nobody reads; and it writes at most one value.
C21_ProducerNeverWaitsForTheReader ==
    /\ taskState = "ready" => ENABLED propagateManagedNodeGroupTagsToASGTask
    /\ (calls # <<>> \/ Written # <<>>) => (taskState = "returned" /\ ret # "none")
    /\ Len(Written) <= 1

C21_Witness ==
    /\ taskState = "returned"
    /\ ret = NilError
    /\ CallsTo("CreateOrUpdateTags") # <<>>
    /\ sending = <<NilError>>
    /\ received = <<>>

-----------------------------------------------------------------------------
(* The identity tags of a stack createNodeGroupTask creates, read back.     *)

\* the tags a caller may have put on the node group before the task
CallerTags ==
    ("owner" :> "team-a" @@ NodeGroupNameTag :> "stale" @@ OldNodeGroupNameTag :> "stale"
       @@ OldNodeGroupIDTag :> "ng-0" @@ NodeGroupTypeTag :> NodeGroupTypeManaged)

\* ng.Tags before the task: nil, or a map
CallerTagMaps ==
    {NilTags} \cup {[IsNil |-> FALSE, Map |-> [k \in keys |-> CallerTags[k]]] :
                       keys \in SUBSET DOMAIN CallerTags}

\* the lists that hold the tags of the given keys of a map once each, in every order
RECURSIVE TagListsOf(_, _)
TagListsOf(tags, keys) ==
    IF keys = {} THEN {<<>>}
    ELSE UNION {{<<[Key |-> k, Value |-> tags[k]]>> \o rest :
                    rest \in TagListsOf(tags, keys \ {k})} : k \in keys}

\* c.makeNodeGroupStackName
makeNodeGroupStackName(name) == "eksctl-clusteur-nodegroup-" \o name

\* the variables of the other operations
IdentityOthers == <<taskVars, moreVars>>

InitIdentity ==
    /\ stack = [StackName |-> "", Tags |-> <<>>]
    /\ \E name \in {"", "ng-1"}, tags \in CallerTagMaps :
           result = [op |-> "createNodeGroupTask", state |-> "ready",
                     ng |-> [Name |-> name, Tags |-> tags], tags0 |-> tags]
    /\ TaskIdle
    /\ ListIdle
    /\ GroupIdle
    /\ UpdateIdle
    /\ BatcherIdle

\* the success path of createNodeGroupTask: the identity tags are set on
\* ng.Tags and the stack is created with them; the stack carries the tags of
\* the map as a list, in an order the map does not fix
CreateNodeGroupStack ==
    /\ result.op = "createNodeGroupTask"
    /\ result.state = "ready"
    /\ LET tags == WithIdentityTags(result.ng)
       IN  /\ result' = [result EXCEPT !.state = "created", !.ng.Tags = tags]
           /\ \E list \in TagListsOf(tags.Map, DOMAIN tags.Map) :
                  stack' = [StackName |-> makeNodeGroupStackName(result.ng.Name),
                            Tags |-> list]
    /\ UNCHANGED IdentityOthers

\* the resolvers are applied to the stack that was created
ResolveCreatedStack ==
    /\ result.op = "createNodeGroupTask"
    /\ result.state = "created"
    /\ result' = [op |-> "resolved", ng |-> result.ng, tags0 |-> result.tags0,
                  name |-> GetNodegroupTagName(stack.Tags),
                  type |-> GetNodeGroupType(stack.Tags)]
    /\ UNCHANGED <<stack, IdentityOthers>>

NextIdentity ==
    \/ CreateNodeGroupStack
    \/ ResolveCreatedStack

SpecIdentity == InitIdentity /\ [][NextIdentity]_vars

\* createNodeGroupTask has created the stack
StackCreated ==
    result.op \in {"createNodeGroupTask", "resolved"} /\ stack.Tags # <<>>

\* the name-identifying keys among the tags of the stack
NameKeysOf(tags) == NameKeys \cap {tags[i].Key : i \in 1..Len(tags)}

\* C22 as stated: the tag set createNodeGroupTask submits to CreateStack has
\* exactly one of the three name-identifying tags.
C22_AsStated == StackCreated => Cardinality(NameKeysOf(stack.Tags)) = 1

\* C22: the tag set createNodeGroupTask submits to CreateStack has the
\* current name tag and the legacy name tag, both with the node group's name,
\* and the legacy id tag exactly when the caller supplied it: two or three of
\* the name-identifying tags, never exactly one.
C22_CurrentAndLegacyNameTags ==
    StackCreated =>
        /\ \A k \in {NodeGroupNameTag, OldNodeGroupNameTag} :
               \E i \in 1..Len(stack.Tags) :
                   stack.Tags[i] = [Key |-> k, Value |-> result.ng.Name]
        /\ NameKeysOf(stack.Tags) =
               {NodeGroupNameTag, OldNodeGroupNameTag}
                   \cup (NameKeys \cap DOMAIN result.tags0.Map)
        /\ Cardinality(NameKeysOf(stack.Tags)) \in {2, 3}

C22_Witness ==
    /\ StackCreated
    /\ result.tags0 = [IsNil |-> FALSE, Map |-> ("owner" :> "team-a")]
    /\ NameKeysOf(stack.Tags) = {NodeGroupNameTag, OldNodeGroupNameTag}
    /\ stack.Tags[1].Key = OldNodeGroupNameTag

IdentityKeys == {NodeGroupNameTag, OldNodeGroupNameTag, NodeGroupTypeTag}

\* the tag set handed to CreateStack has the three identity tags of the node
\* group, whatever the caller supplied for their keys, and every other tag of
\* the caller as it was
IdentityTagsOverride ==
    LET tags == result.ng.Tags.Map
        tags0 == result.tags0.Map
    IN  /\ DOMAIN tags = IdentityKeys \cup DOMAIN tags0
        /\ tags[NodeGroupNameTag] = result.ng.Name
        /\ tags[OldNodeGroupNameTag] = result.ng.Name
        /\ tags[NodeGroupTypeTag] = NodeGroupTypeUnmanaged
        /\ \A k \in DOMAIN tags0 \ IdentityKeys : tags[k] = tags0[k]

\* C23 as stated: the identity tags override, the other tags are unchanged,
\* and the resolvers give back the node group's non-empty name and Unmanaged.
C23_AsStated ==
    result.op = "resolved" =>
        /\ IdentityTagsOverride
        /\ result.ng.Name # "" =>
               /\ result.name = result.ng.Name
               /\ result.type = [type |-> NodeGroupTypeUnmanaged, err |-> NilError]

-----------------------------------------------------------------------------
(* GetAutoScalingGroupName: the autoscaling group of a node-group stack.    *)

\* one external call made while the name is resolved, and the error it answered
AsgCall(api, stackName, nodegroupName, logicalId, err) ==
    [api |-> api, StackName |-> stackName, NodegroupName |-> nodegroupName,
     LogicalResourceId |-> logicalId, err |-> err]

\* strings.Join(asgs, ",") over the names of the groups
RECURSIVE JoinNames(_)
JoinNames(groups) ==
    IF groups = <<>> THEN ""
    ELSE IF Len(groups) = 1 THEN groups[1].Name
    ELSE groups[1].Name \o "," \o JoinNames(Tail(groups))

\* faulty variant: a type that is neither managed nor unmanaged is taken for
\* unmanaged
AsgSwitch_noDefault(nodeGroupType) ==
    IF nodeGroupType = NodeGroupTypeManaged THEN "managed" ELSE "unmanaged"

\* the case of the switch on the resolved type
AsgSwitch(nodeGroupType) ==
    IF nodeGroupType = NodeGroupTypeManaged THEN "managed"
    ELSE IF nodeGroupType \in {NodeGroupTypeUnmanaged, ""} THEN "unmanaged"
    ELSE "default"

InitAsg ==
    /\ stack \in [StackName : StackNames, Tags : TagLists]
    /\ result = [op |-> "none"]
    /\ TaskIdle
    /\ ListIdle
    /\ GroupIdle
    /\ UpdateIdle
    /\ BatcherIdle

\* GetAutoScalingGroupName returns name and err after the calls given
AsgReturns(name, err, asgCalls, warnings) ==
    /\ result' = [op |-> "GetAutoScalingGroupName",
                  type |-> GetNodeGroupType(stack.Tags),
                  name |-> name, err |-> err,
                  calls |-> asgCalls, warnings |-> warnings]
    /\ UNCHANGED <<stack, taskVars, moreVars>>

\* GetNodeGroupType fails: its error is returned
AsgTypeFails ==
    /\ result.op = "none"
    /\ GetNodeGroupType(stack.Tags).err # NilError
    /\ AsgReturns("", GetNodeGroupType(stack.Tags).err, <<>>, <<>>)

\* getManagedNodeGroupAutoScalingGroupName: DescribeNodegroup fails, which is
\* logged, and the empty name is returned with a nil error
AsgManagedDescribeFails ==
    /\ result.op = "none"
    /\ GetNodeGroupType(stack.Tags).err = NilError
    /\ AsgSwitch(GetNodeGroupType(stack.Tags).type) = "managed"
    /\ AsgReturns("", NilError,
                  <<AsgCall("DescribeNodegroup", "", GetNodeGroupName(stack), "",
                            "ResourceNotFoundException")>>,
                  <<"couldn't get managed nodegroup details for stack \""
                      \o stack.StackName \o "\"">>)

\* getManagedNodeGroupAutoScalingGroupName: DescribeNodegroup answers, with
\* no resources or with some autoscaling groups, whose names are joined
AsgManagedDescribed ==
    /\ result.op = "none"
    /\ GetNodeGroupType(stack.Tags).err = NilError
    /\ AsgSwitch(GetNodeGroupType(stack.Tags).type) = "managed"
    /\ \E resources \in {NilResources}
                          \cup {[IsNil |-> FALSE, AutoScalingGroups |-> AutoScalingGroups(k)] :
                                   k \in 0..MaxASGs} :
           AsgReturns(JoinNames(resources.AutoScalingGroups), NilError,
                      <<AsgCall("DescribeNodegroup", "", GetNodeGroupName(stack), "",
                                NilError)>>,
                      <<>>)

\* GetUnmanagedNodeGroupAutoScalingGroupName: DescribeStackResource for the
\* logical id "NodeGroup" fails and its error is returned, or answers the
\* physical id
AsgUnmanaged ==
    /\ result.op = "none"
    /\ GetNodeGroupType(stack.Tags).err = NilError
    /\ AsgSwitch(GetNodeGroupType(stack.Tags).type) = "unmanaged"
    /\ \/ AsgReturns("", "ValidationError: Stack does not exist",
                     <<AsgCall("DescribeStackResource", stack.StackName, "", "NodeGroup",
                               "ValidationError: Stack does not exist")>>,
                     <<>>)
       \/ AsgReturns("eksctl-asg-1", NilError,
                     <<AsgCall("DescribeStackResource", stack.StackName, "", "NodeGroup",
                               NilError)>>,
                     <<>>)

\* the default case of the switch: an error that names the type
AsgUnexpectedType ==
    /\ result.op = "none"
    /\ GetNodeGroupType(stack.Tags).err = NilError
    /\ AsgSwitch(GetNodeGroupType(stack.Tags).type) = "default"
    /\ AsgReturns("", "cant get autoscaling group name, because unexpected nodegroup type : \""
                         \o GetNodeGroupType(stack.Tags).type \o "\"",
                  <<>>, <<>>)

GetAutoScalingGroupName ==
    \/ AsgTypeFails
    \/ AsgManagedDescribeFails
    \/ AsgManagedDescribed
    \/ AsgUnmanaged
    \/ AsgUnexpectedType

NextAsg == GetAutoScalingGroupName

SpecAsg == InitAsg /\ [][NextAsg]_vars

\* GetAutoScalingGroupName has returned
AsgReturned == result.op = "GetAutoScalingGroupName"

\* C24 as stated: when an external call made by GetAutoScalingGroupName has
\* failed, the error GetAutoScalingGroupName returns is not nil.
C24_AsStated ==
    (AsgReturned /\ \E i \in 1..Len(result.calls) : result.calls[i].err # NilError)
        => result.err # NilError

\* C26: GetNodeGroupType does not answer the empty type with a nil error; a
\* managed stack is resolved by one DescribeNodegroup call and nothing else,
\* an unmanaged one by one DescribeStackResource call for the logical id
\* "NodeGroup" and nothing else; any other type, and a tag set that resolves
\* to no name, is an error without any external call.
C26_DispatchOnResolvedType ==
    AsgReturned =>
        /\ ~(result.type.type = "" /\ result.type.err = NilError)
        /\ (result.type.err = NilError /\ result.type.type = NodeGroupTypeManaged)
               => /\ Len(result.calls) = 1
                  /\ result.calls[1].api = "DescribeNodegroup"
        /\ (result.type.err = NilError /\ result.type.type = NodeGroupTypeUnmanaged)
               => /\ Len(result.calls) = 1
                  /\ result.calls[1].api = "DescribeStackResource"
                  /\ result.calls[1].LogicalResourceId = "NodeGroup"
                  /\ result.calls[1].StackName = stack.StackName
        /\ (result.type.err = NilError
              /\ result.type.type \notin {NodeGroupTypeManaged, NodeGroupTypeUnmanaged})
               => /\ result.calls = <<>>
                  /\ result.err # NilError
                  /\ result.name = ""
        /\ NameKeysOf(stack.Tags) = {}
               => /\ result.calls = <<>>
                  /\ result.err # NilError
                  /\ result.name = ""

\* a stack of a type that is neither managed nor unmanaged was refused
C26_Witness ==
    /\ AsgReturned
    /\ result.type = [type |-> "spot", err |-> NilError]
    /\ result.calls = <<>>
    /\ result.err # NilError
    /\ Len(stack.Tags) = 3

-----------------------------------------------------------------------------
(* Properties of ListNodeGroupStacks.                                       *)

\* the stacks DescribeNodeGroupStacks selects from the raw list, in order
SelectedStacks == [j \in 1..Cardinality(KeptPositions) |-> rawStacks.stacks[KeptPosition(j)]]

\* the stack is a node-group stack by the suffix of its name only
SuffixOnly(s) == NameKeysOf(s.Tags) = {} /\ GetNodeGroupName(s) # ""

\* C25: ListNodeGroupStacks returns an error and no list, or no error and one
\* NodeGroupStack for each stack DescribeNodeGroupStacks selects, in the same
\* order, with a non-empty name that is GetNodeGroupName of the stack and the
\* type GetNodeGroupType gives for its tags; it returns an error whenever a
\* selected stack has no name-identifying tag.
C25_ListIsAllOrNothing ==
    listed.op = "ListNodeGroupStacks" =>
        /\ listed.err # NilError => listed.stacks = <<>>
        /\ listed.err = NilError =>
               /\ Len(listed.stacks) = Len(SelectedStacks)
               /\ \A j \in 1..Len(listed.stacks) :
                      /\ listed.stacks[j].Stack = SelectedStacks[j]
                      /\ listed.stacks[j].NodeGroupName # ""
                      /\ listed.stacks[j].NodeGroupName = GetNodeGroupName(SelectedStacks[j])
                      /\ GetNodeGroupType(SelectedStacks[j].Tags) =
                             [type |-> listed.stacks[j].Type, err |-> NilError]
        /\ rawStacks.err # NilError => listed.err = rawStacks.err
        /\ (rawStacks.err = NilError
              /\ \E j \in 1..Len(SelectedStacks) : SuffixOnly(SelectedStacks[j]))
               => listed.err # NilError

\* a listing failed on a stack known by its suffix only, after a stack that
\* has a name tag
C25_Witness ==
    /\ listed.op = "ListNodeGroupStacks"
    /\ Len(SelectedStacks) = 2
    /\ ~SuffixOnly(SelectedStacks[1])
    /\ GetNodeGroupType(SelectedStacks[1].Tags).err = NilError
    /\ SuffixOnly(SelectedStacks[2])
    /\ listed.err = "failed to find the nodegroup name tag"
    /\ listed.stacks = <<>>

=============================================================================
